---- MODULE Spec2Model ----
(***************************************************************************)
(* The action-execution service of botpress                                *)
(* (src/bp/core/services/action/action-service.ts): ActionService, the     *)
(* registry of per-bot scopes, and ScopedActionService, one bot's action   *)
(* catalog, script cache, require validation, execution router, remote     *)
(* delegate and debounced cache invalidation.                              *)
(*                                                                         *)
(* Strings the code takes apart (file names, action names, cache keys,     *)
(* invalidation keys) are sequences of tokens: "nlu/a.js" is               *)
(* <<"nlu", "/", "a", ".js">>.  Time is counted in units of 500 ms.        *)
(***************************************************************************)
EXTENDS Integers, Sequences, FiniteSets, TLC

VARIABLES
  ghost,          \* Content Store: scope id -> sequence of [file, text], in enumeration order
  strictRequire,  \* yn(process.core_env.BP_EXPERIMENTAL_REQUIRE_BPFS)
  scoped,         \* ActionService._scopedActions: bot id -> ScopedActionService fields
  debounce,       \* per scope: the state of its _.debounce(_clearCache) closure
  now,            \* the clock, in time units
  tasks,          \* TasksRepository: the audit tasks created so far
  lastCall,       \* what the last public call did and handed back to its caller
  pending,        \* per scope: a listActions call suspended on its Content Store reads
  hist            \* per scope, for the properties: the matching invalidation events it got,
                  \* and the catalog listActions returned since the last clear

vars == <<ghost, strictRequire, scoped, debounce, now, tasks, lastCall, pending, hist>>

-----------------------------------------------------------------------------
(* Bounds of the model *)

MaxFiles == 2      \* files per Content Store scope in an initial state
MaxTasks == 2      \* audit tasks recorded in one behaviour
MaxEvents == 4     \* matching invalidation events a scope gets in one behaviour
MaxClears == 1     \* ... where the clock stands still
MaxTime == 7       \* last instant of the clock, in time units
MaxBotEvents == 2  \* matching invalidation events a scope gets where two bots have scopes
MaxBotTime == 5    \* ... and the last instant of the clock there

-----------------------------------------------------------------------------
(* Program constants *)

DEBOUNCE_DELAY == 4   \* ms('2s'), in time units of 500 ms
VM_TIMEOUT == 10      \* timeout: 5000 of the NodeVM, in the same unit

Bots == {"b1", "b2"}
Scopes == {"global"} \cup Bots

BUILTIN_MODULES ==
  {"analytics", "basic-skills", "builtin", "channel-messenger", "channel-slack",
   "channel-teams", "channel-telegram", "channel-web", "code-editor", "examples",
   "extensions", "history", "hitl", "nlu", "qna", "testing"}

-----------------------------------------------------------------------------
(* Values *)

Min(S) == CHOOSE x \in S : \A y \in S : x <= y

Undefined == [set |-> FALSE, val |-> <<>>]
Defined(v) == [set |-> TRUE, val |-> v]

EmptyMap == [k \in {} |-> TRUE]
MapHas(m, k) == k \in DOMAIN m
MapSet(m, k, v) == [x \in (DOMAIN m) \cup {k} |-> IF x = k THEN v ELSE m[x]]

\* an Error object: its class, message and stack
Err(type, message, stack) == [type |-> type, message |-> message, stack |-> stack]
NoErr == Err("none", <<>>, <<>>)

\* the result of an awaited step: the effects so far, and a value or a thrown error
Ok(c, v) == [c |-> c, ok |-> TRUE, val |-> v, err |-> NoErr]
Fail(c, e) == [c |-> c, ok |-> FALSE, val |-> <<>>, err |-> e]

BoolStr(b) == IF b THEN "true" ELSE "false"

-----------------------------------------------------------------------------
(* File names and action names *)

\* String.prototype.includes('.http.js')
IncludesHttpJs(file) ==
  \E i \in 1..Len(file) : i < Len(file) /\ file[i] = ".http" /\ file[i + 1] = ".js"

\* how many tokens /\.js|\.http\.js$/ matches at position i (0: no match)
ExtMatchLen(file, i) ==
  IF file[i] = ".js" THEN 1
  ELSE IF i + 1 = Len(file) /\ file[i] = ".http" /\ file[i + 1] = ".js" THEN 2
  ELSE 0

\* file.replace(/\.js|\.http\.js$/i, ''): the leftmost match is removed, once
StripExtension(file) ==
  LET hits == {i \in 1..Len(file) : ExtMatchLen(file, i) > 0}
  IN IF hits = {} THEN file
     ELSE LET i == Min(hits)
          IN SubSeq(file, 1, i - 1) \o SubSeq(file, i + ExtMatchLen(file, i), Len(file))

\* a.name.split('/')[0]
FirstSegment(name) ==
  LET cuts == {i \in 1..Len(name) : name[i] = "/"}
  IN IF cuts = {} THEN name ELSE SubSeq(name, 1, Min(cuts) - 1)

\* BUILTIN_MODULES.includes(a.name.split('/')[0])
IsBuiltinNamespace(name) ==
  LET seg == FirstSegment(name) IN Len(seg) = 1 /\ seg[1] \in BUILTIN_MODULES

\* the key getActionScript stores a script under
ScriptKey(action) == action.name \o <<"_", BoolStr(action.legacy), "_", action.location>>

\* path.basename of a file name
Basename(file) ==
  LET cuts == {i \in 1..Len(file) : file[i] = "/"}
  IN IF cuts = {} THEN file
     ELSE LET last == CHOOSE i \in cuts : \A j \in cuts : j <= i
          IN SubSeq(file, last + 1, Len(file))

\* the filter of disabled files: a disabled file's base name starts with a dot
enabled(file) == ~(Len(Basename(file)) > 0 /\ Basename(file)[1] = ".")

\* the glob '*.js' without the EXCLUDES directories
MatchesJsGlob(file) ==
  /\ Len(file) > 0 /\ file[Len(file)] = ".js"
  /\ \A i \in 1..Len(file) : file[i] \notin {"node_modules", "node_production_modules"}

-----------------------------------------------------------------------------
(* Script texts *)

\* a script text: the file it was written to, the module names its require()
\* calls pass, and what its body does when it runs
Text(scopeId, file, requires, body) ==
  [tag |-> <<scopeId, file>>, requires |-> requires, body |-> body]

extractMetadata(script) == [title |-> script.tag]
extractRequiredFiles(code) == code.requires

\* module names that resolve within the lookup roots of any action
ResolvableModules == {<<"lodash">>}
\* prepareRequireTester(parentScript, lookups)(file)
isRequireValid(file) == file \in ResolvableModules

-----------------------------------------------------------------------------
(* Content Store *)

StoreFiles(scopeId) == [i \in 1..Len(ghost[scopeId]) |-> ghost[scopeId][i].file]

\* ghost.<scope>.directoryListing('actions', '*.js', EXCLUDES)
directoryListing(c, scopeId) ==
  Ok([c EXCEPT !.ops = Append(@, <<"list", scopeId>>)],
     SelectSeq(StoreFiles(scopeId), MatchesJsGlob))

\* ghost.<scope>.readFileAsString('actions', fname)
readFileAsString(c, scopeId, fname) ==
  LET files == ghost[scopeId]
      hits == {i \in 1..Len(files) : files[i].file = fname}
      c2 == [c EXCEPT !.ops = Append(@, <<"read", scopeId, fname>>)]
  IN IF hits = {} THEN Fail(c2, Err("Error", <<"file not found", fname>>, <<"ghost">>))
     ELSE Ok(c2, files[Min(hits)].text)

-----------------------------------------------------------------------------
(* ScopedActionService: catalog and script cache.  An operation works on a  *)
(* context c, the fields of the scope and the effects of the call so far.   *)

NewScope ==
  [globalActionsCache |-> Undefined,
   localActionsCache |-> Undefined,
   scriptsCache |-> EmptyMap,
   validScripts |-> {},
   botsWorkspaceIdsCache |-> EmptyMap]

Ctx(sc, event) ==
  [sc |-> sc,            \* the fields of the scope
   event |-> event,      \* the caller's incomingEvent object
   ops |-> <<>>,         \* Content Store operations made
   loaded |-> <<>>,      \* required files executed by requireFromString
   checked |-> <<>>,     \* what loadLocalAction's checkActionRequires calls returned
   details |-> <<>>,     \* the names getActionDetails was called with
   nested |-> <<>>,      \* nested checkActionRequires calls that returned:
                         \* <<parent, file, value>>
   entered |-> <<>>,     \* execution strategies entered
   executed |-> <<>>,    \* scripts run: <<strategy, text>>
   requests |-> <<>>,    \* HTTP requests sent to the action server
   elapsed |-> 0,        \* time the event loop was held by a script of the call
   created |-> <<>>]     \* audit tasks created

\* `await r` followed by K: a rejection (or a call that never settles) propagates
Await(r, K(_)) == IF r.ok THEN K(r) ELSE r

\* where getActionScript reads an action's script
ScriptScope(botId, action) == IF action.location = "global" THEN "global" ELSE botId
ScriptFile(action) ==
  IF action.location = "global" THEN action.name \o <<".js">>
  ELSE IF action.legacy THEN action.name \o <<".js">>
  ELSE action.name \o <<".http", ".js">>

\* getActionScript with the look-up made against the cache `seen`
GetActionScriptSeen(c, botId, action, seen) ==
  IF MapHas(seen, action.name) THEN Ok(c, seen[action.name])
  ELSE Await(readFileAsString(c, ScriptScope(botId, action), ScriptFile(action)),
             LAMBDA r : Ok([r.c EXCEPT !.sc.scriptsCache = MapSet(@, ScriptKey(action), r.val)],
                           r.val))

getActionScript(c, botId, action) ==
  GetActionScriptSeen(c, botId, action, c.sc.scriptsCache)

\* getActionDefinition(file, location, true), its look-up made against `seen`
getActionDefinition(c, botId, file, location, seen) ==
  LET action == [name |-> StripExtension(file), isRemote |-> FALSE,
                 location |-> location, legacy |-> ~IncludesHttpJs(file)]
  IN Await(GetActionScriptSeen(c, botId, action, seen),
           LAMBDA r : Ok(r.c, [name |-> action.name, isRemote |-> FALSE,
                               location |-> location, legacy |-> action.legacy,
                               metadata |-> extractMetadata(r.val)]))

\* Promise.map(actionFiles, file => getActionDefinition(file, location, true)):
\* every mapper starts (and looks the script cache up) before any read ends,
\* every read is made, and the first rejection is the result
MapJoin(r, rest) ==
  IF ~r.ok THEN Fail(rest.c, r.err)
  ELSE IF ~rest.ok THEN rest
  ELSE Ok(rest.c, <<r.val>> \o rest.val)

RECURSIVE MapDefinitions(_, _, _, _, _, _)
MapRest(r, botId, files, i, location, seen) ==
  MapJoin(r, MapDefinitions(r.c, botId, files, i + 1, location, seen))

MapDefinitions(c, botId, files, i, location, seen) ==
  IF i > Len(files) THEN Ok(c, <<>>)
  ELSE MapRest(getActionDefinition(c, botId, files[i], location, seen),
               botId, files, i, location, seen)

\* (await directoryListing(...)).filter(enabled), then the Promise.map
ListDefinitions(ls, botId, location, seen) ==
  MapDefinitions(ls.c, botId, SelectSeq(ls.val, enabled), 1, location, seen)

listGlobalActions(c, botId) ==
  IF c.sc.globalActionsCache.set THEN Ok(c, c.sc.globalActionsCache.val)
  ELSE Await(ListDefinitions(directoryListing(c, "global"), botId, "global",
                             c.sc.scriptsCache),
             LAMBDA r : Ok([r.c EXCEPT !.sc.globalActionsCache = Defined(r.val)], r.val))

\* listLocalActions without its cache check: every call enumerates the store
listLocalActionsUncached(c, botId) ==
  Await(ListDefinitions(directoryListing(c, botId), botId, "local", c.sc.scriptsCache),
        LAMBDA r : Ok([r.c EXCEPT !.sc.localActionsCache = Defined(r.val)], r.val))

listLocalActions(c, botId) ==
  IF c.sc.localActionsCache.set THEN Ok(c, c.sc.localActionsCache.val)
  ELSE Await(ListDefinitions(directoryListing(c, botId), botId, "local",
                             c.sc.scriptsCache),
             LAMBDA r : Ok([r.c EXCEPT !.sc.localActionsCache = Defined(r.val)], r.val))

\* listActions with the two groups the other way round
listActionsLocalFirst(c, botId) ==
  Await(listGlobalActions(c, botId),
        LAMBDA g : Await(listLocalActions(g.c, botId),
                         LAMBDA l : Ok(l.c, l.val \o g.val)))

listActions(c, botId) ==
  Await(listGlobalActions(c, botId),
        LAMBDA g : Await(listLocalActions(g.c, botId),
                         LAMBDA l : Ok(l.c, g.val \o l.val)))

\* actions.find(x => x.name === actionName)
FindByName(actions, actionName) ==
  LET hits == {i \in 1..Len(actions) : actions[i].name = actionName}
  IN IF hits = {} THEN Undefined ELSE Defined(actions[Min(hits)])

\* findAction that falls back on the first action of the catalog
findActionOrFirst(c, botId, actionName) ==
  Await(listActions(c, botId),
        LAMBDA r : IF FindByName(r.val, actionName).set
                   THEN Ok(r.c, FindByName(r.val, actionName).val)
                   ELSE IF Len(r.val) > 0 THEN Ok(r.c, r.val[1])
                   ELSE Fail(r.c, Err("Error", <<"Action not found", actionName>>,
                                      <<"findAction">>)))

findAction(c, botId, actionName) ==
  Await(listActions(c, botId),
        LAMBDA r : IF FindByName(r.val, actionName).set
                   THEN Ok(r.c, FindByName(r.val, actionName).val)
                   ELSE Fail(r.c, Err("Error", <<"Action not found", actionName>>,
                                      <<"findAction">>)))

IsBuiltinAction(a) == IsBuiltinNamespace(a.name)

\* listTrustedActions over the merged catalog instead of the global one
listTrustedActionsAnyScope(c, botId) ==
  Await(listActions(c, botId), LAMBDA r : Ok(r.c, SelectSeq(r.val, IsBuiltinAction)))

listTrustedActions(c, botId) ==
  Await(listGlobalActions(c, botId), LAMBDA r : Ok(r.c, SelectSeq(r.val, IsBuiltinAction)))

isTrustedAction(c, botId, actionName) ==
  Await(listTrustedActions(c, botId),
        LAMBDA r : Ok(r.c, \E i \in 1..Len(r.val) : r.val[i].name = actionName))

\* getActionDetails: the action and its code (dirPath and lookups are derived
\* from the action name and location alone)
getActionDetails(c, botId, actionName) ==
  Await(findAction([c EXCEPT !.details = Append(@, actionName)], botId, actionName),
        LAMBDA a : Await(getActionScript(a.c, botId, a.val),
                         LAMBDA s : Ok(s.c, [code |-> s.val, action |-> a.val])))

-----------------------------------------------------------------------------
(* Require validation *)

\* a call that never settles: it re-enters itself with the scope unchanged
Diverges(r) == ~r.ok /\ r.err.type = "diverges"

\* requireFromString(code, file, parentScript, require): runs the file's top level
RequireFromString(c, code) ==
  IF code.body = "throw"
  THEN Fail([c EXCEPT !.loaded = Append(@, code.tag)],
            Err("Error", <<"script error", code.tag>>, <<"requireFromString">>))
  ELSE Ok([c EXCEPT !.loaded = Append(@, code.tag)], TRUE)

\* a step inside the try block of checkActionRequires: a rejection is logged and
\* the check returns false
Caught(r, K(_)) ==
  IF Diverges(r) THEN r ELSE IF ~r.ok THEN Ok(r.c, FALSE) ELSE K(r)

\* checkActionRequires(actionName); `path` holds the names whose check is in
\* progress: _validScripts gets a name only when its check ends, so a nested call
\* for a name in progress repeats the outer call and the recursion never ends
RECURSIVE checkActionRequires(_, _, _, _)
RECURSIVE CheckRequiredFiles(_, _, _, _, _, _)

CheckRequiredFiles(c, botId, actionName, files, i, path) ==
  IF i > Len(files)
  THEN Ok([c EXCEPT !.sc.validScripts = @ \cup {actionName}], TRUE)
  ELSE IF isRequireValid(files[i])
  THEN CheckRequiredFiles(c, botId, actionName, files, i + 1, path)
  ELSE Caught(checkActionRequires(c, botId, files[i], path \cup {actionName}),
         LAMBDA sub : Caught(getActionDetails(
                               [sub.c EXCEPT !.nested = Append(@, <<actionName, files[i], sub.val>>)],
                               botId, files[i]),
           LAMBDA d : Caught(RequireFromString(d.c, d.val.code),
             LAMBDA x : CheckRequiredFiles(x.c, botId, actionName, files, i + 1, path))))

\* checkActionRequires without the look-up in _validScripts
checkActionRequiresUnmemoized(c, botId, actionName, path) ==
  IF actionName \in path THEN Fail(c, Err("diverges", <<>>, <<>>))
  ELSE Await(getActionDetails(c, botId, actionName),
             LAMBDA d : CheckRequiredFiles(d.c, botId, actionName,
                                           extractRequiredFiles(d.val.code), 1, path))

checkActionRequires(c, botId, actionName, path) ==
  IF actionName \in c.sc.validScripts THEN Ok(c, TRUE)
  ELSE IF actionName \in path THEN Fail(c, Err("diverges", <<>>, <<>>))
  ELSE Await(getActionDetails(c, botId, actionName),
             LAMBDA d : CheckRequiredFiles(d.c, botId, actionName,
                                           extractRequiredFiles(d.val.code), 1, path))

\* loadLocalAction after its strict-mode check: the action's code
LoadDetails(c, botId, actionName) ==
  Await(getActionDetails(c, botId, actionName), LAMBDA d : Ok(d.c, d.val.code))

loadLocalAction(c, botId, actionName) ==
  IF strictRequire
  THEN Await(checkActionRequires(c, botId, actionName, {}),
             LAMBDA chk : LoadDetails([chk.c EXCEPT !.checked = Append(@, chk.val)],
                                      botId, actionName))
  ELSE LoadDetails(c, botId, actionName)

-----------------------------------------------------------------------------
(* In-process execution *)

\* the script body runs with the argument bundle: it sets event.state.temp.x,
\* or throws, or never returns
RunBody(c, strategy, code) ==
  IF code.body = "loop"
  THEN Fail([c EXCEPT !.executed = Append(@, <<strategy, code.tag>>)],
            Err("diverges", <<>>, <<>>))
  ELSE IF code.body = "throw"
  THEN Fail([c EXCEPT !.executed = Append(@, <<strategy, code.tag>>)],
            Err("Error", <<"script error", code.tag>>, <<"script", code.tag>>))
  ELSE Ok([c EXCEPT !.executed = Append(@, <<strategy, code.tag>>),
                    !.event.state.temp.x = 1], TRUE)

runWithoutVm(c, code) == RunBody(c, "TrustedRun", code)

\* VmRunner.runInVm(vm, code, dirPath), vm made with the given timeout option: a
\* script still running when the timeout has passed is aborted
VmRunnerRunInVm(c, timeout, code) ==
  IF code.body = "loop" /\ timeout.set
  THEN Fail([c EXCEPT !.executed = Append(@, <<"SandboxedRun", code.tag>>),
                      !.elapsed = @ + timeout.val],
            Err("VMError", <<"Script execution timed out.">>, <<"vm", code.tag>>))
  ELSE RunBody(c, "SandboxedRun", code)

\* runInVm with a NodeVM made without the timeout option
runInVmNoTimeout(c, code) == VmRunnerRunInVm(c, Undefined, code)

runInVm(c, code) == VmRunnerRunInVm(c, Defined(VM_TIMEOUT), code)

runTrustedCode(c, botId, actionName) ==
  Await(loadLocalAction([c EXCEPT !.entered = Append(@, "TrustedRun")], botId, actionName),
        LAMBDA l : runWithoutVm(l.c, l.val))

runLegacyAction(c, botId, actionName) ==
  Await(loadLocalAction([c EXCEPT !.entered = Append(@, "SandboxedRun")], botId, actionName),
        LAMBDA l : runInVm(l.c, l.val))

-----------------------------------------------------------------------------
(* Remote delegation *)

\* workspaceService.getBotWorkspaceId(botId)
WorkspaceOf(botId) == <<"workspace-of", botId>>

getWorkspaceIdForBot(c, botId) ==
  IF MapHas(c.sc.botsWorkspaceIdsCache, botId)
  THEN Ok(c, c.sc.botsWorkspaceIdsCache[botId])
  ELSE Ok([c EXCEPT !.sc.botsWorkspaceIdsCache = MapSet(@, botId, WorkspaceOf(botId))],
          WorkspaceOf(botId))

\* what the axios call comes to: an HTTP response, whose body carries an
\* incomingEvent or not; an axios (transport) error with a code; another error
Response(status, data) == [kind |-> "response", status |-> status, data |-> data, code |-> ""]
AxiosError(code) == [kind |-> "axiosError", status |-> 0, data |-> Undefined, code |-> code]
OtherError == [kind |-> "error", status |-> 0, data |-> Undefined, code |-> ""]

\* the record both createTask calls spread: taskInfo, endedAt, status, failureReason
Task(props, status, reason) ==
  [eventId |-> props.incomingEvent.id,
   actionName |-> props.actionName,
   actionArgs |-> props.actionArgs,
   actionServerId |-> props.actionServer.val.id,
   startedAt |-> now, endedAt |-> now,
   status |-> status, failureReason |-> reason]

\* tasksRepository.createTask(task)
createTask(c, task) == [c EXCEPT !.created = Append(@, task)]

\* the catch block of the axios call: a failed task for an axios error only
OnRequestError(c, props, outcome) ==
  IF outcome.kind = "axiosError"
  THEN Fail(createTask(c, Task(props, "failed", <<"axios:", outcome.code>>)),
            Err("AxiosError", <<"request failed", outcome.code>>, <<"axios">>))
  ELSE Fail(c, Err("TypeError", <<"request not sent">>, <<"axios">>))

\* OnResponse with the task recorded after the response body is taken apart
OnResponseTaskLast(c, props, response) ==
  IF ~response.data.set
  THEN Fail(c, Err("TypeError", <<"Cannot read property 'state' of undefined">>,
                   <<"runInActionServer">>))
  ELSE Ok(createTask(c, Task(props, "completed", <<>>)),
          [response.data.val EXCEPT !.state.temp.responseStatusCode = response.status])

\* after the axios call: the completed task, then the event of the response body
\* with the status code set
OnResponse(c, props, response) ==
  IF ~response.data.set
  THEN Fail(createTask(c, Task(props, "completed", <<>>)),
            Err("TypeError", <<"Cannot read property 'state' of undefined">>,
                <<"runInActionServer">>))
  ELSE Ok(createTask(c, Task(props, "completed", <<>>)),
          [response.data.val EXCEPT !.state.temp.responseStatusCode = response.status])

\* the signed token and the POST to <baseUrl>/action/run
SendRequest(ws, props) ==
  [ws.c EXCEPT !.requests = Append(@,
     [url |-> <<props.actionServer.val.baseUrl, "/action/run">>,
      token |-> [botId |-> props.incomingEvent.botId, scopes |-> <<"*">>,
                 workspace |-> ws.val, expiresIn |-> "5m"],
      botId |-> props.incomingEvent.botId, actionName |-> props.actionName,
      actionArgs |-> props.actionArgs, incomingEvent |-> props.incomingEvent])]

runInActionServer(c, props, outcome) ==
  IF outcome.kind = "response"
  THEN OnResponse(SendRequest(getWorkspaceIdForBot(
                    [c EXCEPT !.entered = Append(@, "RemoteDelegate")],
                    props.incomingEvent.botId), props), props, outcome)
  ELSE OnRequestError(SendRequest(getWorkspaceIdForBot(
                        [c EXCEPT !.entered = Append(@, "RemoteDelegate")],
                        props.incomingEvent.botId), props), props, outcome)

-----------------------------------------------------------------------------
(* Execution router *)

ActionExecutionError(message, actionName, stack) ==
  [type |-> "ActionExecutionError", message |-> message, actionName |-> actionName,
   stack |-> stack]

\* the in-process branch of runAction, t being what isTrustedAction came to
RouteLocal(t, botId, props) ==
  IF ~t.ok THEN [r |-> t, trusted |-> Undefined]
  ELSE [r |-> IF t.val THEN runTrustedCode(t.c, botId, props.actionName)
              ELSE runLegacyAction(t.c, botId, props.actionName),
        trusted |-> Defined(t.val)]

\* Route with the trust classification made before the action server is looked at
RouteTrustFirst(c, botId, props, outcome) ==
  IF props.actionServer.set /\ ~(isTrustedAction(c, botId, props.actionName).ok
                                 /\ isTrustedAction(c, botId, props.actionName).val)
  THEN [r |-> runInActionServer(c, props, outcome), trusted |-> Undefined]
  ELSE RouteLocal(isTrustedAction(c, botId, props.actionName), botId, props)

\* the try block of runAction: the strategy taken, and the trust classification
\* when one was made
Route(c, botId, props, outcome) ==
  IF props.actionServer.set
  THEN [r |-> runInActionServer(c, props, outcome), trusted |-> Undefined]
  ELSE RouteLocal(isTrustedAction(c, botId, props.actionName), botId, props)

\* the catch block of runAction
Rethrow(err, actionName) == ActionExecutionError(err.message, actionName, err.stack)

\* how the promise of runAction settles (resolved with no value, rejected with
\* an error, or never), and the local variable incomingEvent at its end
Settle(t, props) ==
  [c |-> t.r.c,
   trusted |-> t.trusted,
   settled |-> IF t.r.ok THEN "resolved" ELSE IF Diverges(t.r) THEN "never" ELSE "rejected",
   thrown |-> t.r.err,
   error |-> IF t.r.ok \/ Diverges(t.r) THEN NoErr ELSE Rethrow(t.r.err, props.actionName),
   incomingEvent |-> IF props.actionServer.set /\ t.r.ok THEN t.r.val ELSE t.r.c.event]

runAction(c, botId, props, outcome) == Settle(Route(c, botId, props, outcome), props)

-----------------------------------------------------------------------------
(* Debounced cache invalidation *)

\* String.prototype.toLowerCase, token by token
ToLowerCase(tok) ==
  CASE tok = "/ACTIONS" -> "/actions"
    [] tok = "/Actions" -> "/actions"
    [] tok = "DATA" -> "data"
    [] OTHER -> tok

\* key.toLowerCase().indexOf('/actions') > -1
MatchesActions(key) == \E i \in 1..Len(key) : ToLowerCase(key[i]) = "/actions"

\* _.debounce(f, DEBOUNCE_DELAY, { leading: true, trailing: false }): the closure's
\* lastCallTime and timerId (the instant its timer is due)
NewDebounce == [lastCallTime |-> Undefined, timerId |-> Undefined]

\* lodash shouldInvoke(time), without maxWait
ShouldInvoke(d, time) ==
  \/ ~d.lastCallTime.set
  \/ time - d.lastCallTime.val >= DEBOUNCE_DELAY
  \/ time - d.lastCallTime.val < 0

\* debounced() of a closure whose window runs from the call that invoked f: a
\* call that does not invoke leaves lastCallTime as it is
DebouncedCallFixedWindow(d, time) ==
  IF ShouldInvoke(d, time) /\ ~d.timerId.set
  THEN [d |-> [d EXCEPT !.lastCallTime = Defined(time),
                        !.timerId = Defined(time + DEBOUNCE_DELAY)], invoked |-> TRUE]
  ELSE [d |-> d, invoked |-> FALSE]

\* debounced() of a closure made with { leading: false }
DebouncedCallNoLeading(d, time) ==
  IF ~d.timerId.set
  THEN [d |-> [d EXCEPT !.lastCallTime = Defined(time),
                        !.timerId = Defined(time + DEBOUNCE_DELAY)], invoked |-> FALSE]
  ELSE [d |-> [d EXCEPT !.lastCallTime = Defined(time)], invoked |-> FALSE]

\* lodash debounced(): the closure after a call at `time`, and whether the call
\* invoked f (leadingEdge)
DebouncedCall(d, time) ==
  LET isInvoking == ShouldInvoke(d, time)
      d1 == [d EXCEPT !.lastCallTime = Defined(time)]
  IN IF isInvoking /\ ~d.timerId.set
     THEN [d |-> [d1 EXCEPT !.timerId = Defined(time + DEBOUNCE_DELAY)], invoked |-> TRUE]
     ELSE IF ~d.timerId.set
     THEN [d |-> [d1 EXCEPT !.timerId = Defined(time + DEBOUNCE_DELAY)], invoked |-> FALSE]
     ELSE [d |-> d1, invoked |-> FALSE]

\* lodash timerExpired(): trailingEdge drops the timer and, trailing being false,
\* invokes nothing; a timer that is early for the last call is re-armed
TimerExpiredAt(d, time) ==
  IF ShouldInvoke(d, time) THEN [d EXCEPT !.timerId = Undefined]
  ELSE [d EXCEPT !.timerId = Defined(time + (DEBOUNCE_DELAY - (time - d.lastCallTime.val)))]

\* _clearCache() without its last assignment
ClearCacheKeepsWorkspace(sc) ==
  [sc EXCEPT !.scriptsCache = EmptyMap,
             !.globalActionsCache = Undefined,
             !.localActionsCache = Undefined,
             !.validScripts = {}]

\* _clearCache()
ClearCache(sc) ==
  [sc EXCEPT !.scriptsCache = EmptyMap,
             !.globalActionsCache = Undefined,
             !.localActionsCache = Undefined,
             !.validScripts = {},
             !.botsWorkspaceIdsCache = EmptyMap]

-----------------------------------------------------------------------------
(* Inputs *)

Requires(reqs, body) == [requires |-> reqs, body |-> body]

PlainOk == Requires(<<>>, "ok")
PlainThrow == Requires(<<>>, "throw")
PlainLoop == Requires(<<>>, "loop")
\* requires a module of the lookup roots, and a file outside them that is no action
RequiresOutside == Requires(<< <<"lodash">>, <<"..", "/", "etc", "/", "hosts">> >>, "ok")
\* requires the action "util"
RequiresUtil == Requires(<< <<"util">> >>, "ok")
\* requires the action "c"
RequiresC == Requires(<< <<"c">> >>, "ok")
\* requires a file that is no action, in a function its top level does not call
RequiresMissing == Requires(<< <<"nope">> >>, "ok")

\* the files a scope may hold, in enumeration order, each with the texts it may have
GlobalCandidates ==
  << [file |-> <<"util", ".js">>, alts |-> {PlainOk, PlainThrow}],
     [file |-> <<"nlu", "/", "a", ".js">>, alts |-> {PlainOk, RequiresOutside}],
     [file |-> <<"x", ".http", ".js">>, alts |-> {PlainOk}] >>

LocalCandidates ==
  << [file |-> <<"nlu", "/", "a", ".js">>, alts |-> {PlainOk}],
     [file |-> <<"c", ".js">>, alts |-> {RequiresUtil, RequiresOutside, PlainThrow}],
     [file |-> <<"c", ".http", ".js">>, alts |-> {PlainOk}],
     [file |-> <<".", "off", ".js">>, alts |-> {PlainOk}] >>

RECURSIVE SortedSeq(_)
SortedSeq(S) == IF S = {} THEN <<>> ELSE <<Min(S)>> \o SortedSeq(S \ {Min(S)})

\* the stores of at most MaxFiles of the candidate files, in their order
StoreChoices(scopeId, cand) ==
  LET AllAlts == UNION {cand[i].alts : i \in 1..Len(cand)}
      Build(I, alt) ==
        LET ord == SortedSeq(I)
        IN [k \in 1..Len(ord) |->
              [file |-> cand[ord[k]].file,
               text |-> Text(scopeId, cand[ord[k]].file,
                             alt[ord[k]].requires, alt[ord[k]].body)]]
  IN UNION { { Build(I, alt) : alt \in {f \in [I -> AllAlts] : \A i \in I : f[i] \in cand[i].alts} }
             : I \in {J \in SUBSET (1..Len(cand)) : Cardinality(J) <= MaxFiles} }

ActionNames == { <<"nlu", "/", "a">>, <<"util">>, <<"c">>, <<"nope">> }

TheActionServer == [id |-> "as1", baseUrl |-> "http://as1"]

IncomingEvent(botId) ==
  [id |-> "e1", botId |-> botId,
   state |-> [temp |-> [x |-> 0, responseStatusCode |-> 0]]]

\* the event an action server sends back: its own object, changed by the action
ServerEvent(botId) == [IncomingEvent(botId) EXCEPT !.state.temp.x = 2]

Outcomes(botId) ==
  { Response(200, Defined(ServerEvent(botId))),
    Response(500, Defined(ServerEvent(botId))),
    Response(500, Undefined),
    AxiosError("ECONNABORTED"),
    OtherError }

InvalidationKeys ==
  { <<"data", "/bots", "/b1", "/actions", "/c.js">>,
    <<"DATA", "/global", "/ACTIONS", "/util.js">>,
    <<"data", "/bots", "/b1", "/flows", "/main.flow.json">> }

-----------------------------------------------------------------------------
(* Initial states *)

NoCall == [op |-> "none"]
NewHist == [events |-> <<>>, listed |-> Undefined]

InitService ==
  /\ scoped = EmptyMap
  /\ debounce = EmptyMap
  /\ hist = EmptyMap
  /\ pending = EmptyMap
  /\ now = 0
  /\ tasks = <<>>
  /\ lastCall = NoCall

\* any store of bot b1 and of the global scope, strict-require mode on or off
Init ==
  /\ \E g \in StoreChoices("global", GlobalCandidates),
        l \in StoreChoices("b1", LocalCandidates) :
       ghost = [s \in Scopes |-> IF s = "global" THEN g ELSE IF s = "b1" THEN l ELSE <<>>]
  /\ strictRequire \in BOOLEAN
  /\ InitService

-----------------------------------------------------------------------------
(* Operations *)

\* ActionService.forBot(botId): the scope is made on the first call, and its
\* constructor subscribes its own debounced _clearCache
ForBot(botId) ==
  /\ botId \notin DOMAIN scoped
  /\ scoped' = MapSet(scoped, botId, NewScope)
  /\ debounce' = MapSet(debounce, botId, NewDebounce)
  /\ hist' = MapSet(hist, botId, NewHist)
  /\ pending' = MapSet(pending, botId, Undefined)
  /\ UNCHANGED <<ghost, strictRequire, now, tasks, lastCall>>

\* forBot(botId).listActions()
ListActionsDone(botId, r) ==
  /\ scoped' = [scoped EXCEPT ![botId] = r.c.sc]
  /\ lastCall' = [op |-> "listActions", botId |-> botId, ok |-> r.ok, val |-> r.val,
                  thrown |-> r.err, ops |-> r.c.ops, before |-> hist[botId].listed,
                  store |-> ghost, events |-> hist[botId].events, at |-> now]
  /\ hist' = [hist EXCEPT ![botId].listed = IF r.ok THEN Defined(r.val) ELSE @]

ListActions(botId) ==
  /\ botId \in DOMAIN scoped
  /\ ListActionsDone(botId, listActions(Ctx(scoped[botId], IncomingEvent(botId)), botId))
  /\ UNCHANGED <<ghost, strictRequire, pending, debounce, now, tasks>>

\* forBot(botId).runAction(props), the axios call coming to `outcome`
RunActionDone(botId, props, outcome, r) ==
  /\ scoped' = [scoped EXCEPT ![botId] = r.c.sc]
  /\ tasks' = tasks \o r.c.created
  /\ lastCall' = [op |-> "runAction", botId |-> botId, props |-> props,
                  outcome |-> outcome,
                  settled |-> r.settled, error |-> r.error, thrown |-> r.thrown,
                  trusted |-> r.trusted,
                  incomingEvent |-> r.incomingEvent, callerEvent |-> r.c.event,
                  ops |-> r.c.ops, loaded |-> r.c.loaded, checked |-> r.c.checked,
                  entered |-> r.c.entered, executed |-> r.c.executed,
                  requests |-> r.c.requests, created |-> r.c.created,
                  elapsed |-> r.c.elapsed, details |-> r.c.details,
                  nested |-> r.c.nested,
                  valid |-> [before |-> scoped[botId].validScripts,
                             after |-> r.c.sc.validScripts]]

RunActionCall(botId, props, outcome) ==
  /\ botId \in DOMAIN scoped
  /\ RunActionDone(botId, props, outcome,
                   runAction(Ctx(scoped[botId], props.incomingEvent), botId, props, outcome))
  /\ UNCHANGED <<ghost, strictRequire, pending, debounce, now, hist>>

Props(botId, actionName, actionServer) ==
  [actionName |-> actionName, actionServer |-> actionServer,
   incomingEvent |-> IncomingEvent(botId), actionArgs |-> <<>>]

\* runAction without an action server
RunLocal(botId, actionName) ==
  /\ botId \in Bots
  /\ RunActionCall(botId, Props(botId, actionName, Undefined), OtherError)

\* runAction with an action server
RunRemote(botId, actionName) ==
  /\ Len(tasks) < MaxTasks
  /\ \E outcome \in Outcomes(botId) :
       RunActionCall(botId, Props(botId, actionName, Defined(TheActionServer)), outcome)

\* the caches of a scope that hold something
PopulatedCaches(sc) ==
  {n \in {"global", "local", "scripts", "valid", "workspace"} :
     CASE n = "global" -> sc.globalActionsCache.set
       [] n = "local" -> sc.localActionsCache.set
       [] n = "scripts" -> DOMAIN sc.scriptsCache # {}
       [] n = "valid" -> sc.validScripts # {}
       [] OTHER -> DOMAIN sc.botsWorkspaceIdsCache # {}}

\* listeners that call their closure only for a key of their own bot's folder
InvalidateScopesOfKeyBot(key) ==
  /\ \A b \in DOMAIN scoped : Len(hist[b].events) < MaxEvents
  /\ IF MatchesActions(key)
     THEN LET named == {b \in DOMAIN scoped : \E i \in 1..Len(key) :
                                                  key[i] \in {b, IF b = "b1" THEN "/b1" ELSE "/b2"}}
              call == [b \in DOMAIN scoped |-> DebouncedCall(debounce[b], now)]
          IN /\ debounce' = [b \in DOMAIN scoped |->
                               IF b \in named THEN call[b].d ELSE debounce[b]]
             /\ scoped' = [b \in DOMAIN scoped |->
                             IF b \in named /\ call[b].invoked THEN ClearCache(scoped[b])
                             ELSE scoped[b]]
             /\ hist' = [b \in DOMAIN scoped |->
                           IF b \in named
                           THEN [events |-> Append(hist[b].events,
                                                   [at |-> now, cleared |-> call[b].invoked,
                                                    held |-> PopulatedCaches(scoped[b])]),
                                 listed |-> IF call[b].invoked THEN Undefined
                                            ELSE hist[b].listed]
                           ELSE hist[b]]
     ELSE UNCHANGED <<debounce, scoped, hist>>

\* the listeners of every scope run on an 'invalidation' event with `key`
InvalidateScopes(key) ==
  /\ \A b \in DOMAIN scoped : Len(hist[b].events) < MaxEvents
  /\ IF MatchesActions(key)
     THEN LET call == [b \in DOMAIN scoped |-> DebouncedCall(debounce[b], now)]
          IN /\ debounce' = [b \in DOMAIN scoped |-> call[b].d]
             /\ scoped' = [b \in DOMAIN scoped |->
                             IF call[b].invoked THEN ClearCache(scoped[b]) ELSE scoped[b]]
             /\ hist' = [b \in DOMAIN scoped |->
                           [events |-> Append(hist[b].events,
                                              [at |-> now, cleared |-> call[b].invoked,
                                               held |-> PopulatedCaches(scoped[b])]),
                            listed |-> IF call[b].invoked THEN Undefined
                                       ELSE hist[b].listed]]
     ELSE UNCHANGED <<debounce, scoped, hist>>

\* the Cache Bus emits 'invalidation' with `key`: every scope's listener runs
Invalidate(key) ==
  /\ InvalidateScopes(key)
  /\ UNCHANGED <<ghost, strictRequire, pending, now, tasks, lastCall>>

\* a file of a bot's actions folder is written (created, or deleted when it is
\* there), and the Content Store emits the invalidation of its key
WrittenFile == <<"d", ".js">>

WriteFile(botId) ==
  /\ botId \in DOMAIN scoped
  /\ ghost' = [ghost EXCEPT ![botId] =
                 IF \E i \in 1..Len(@) : @[i].file = WrittenFile
                 THEN SelectSeq(@, LAMBDA e : e.file # WrittenFile)
                 ELSE Append(@, [file |-> WrittenFile,
                                 text |-> Text(botId, WrittenFile, <<>>, "ok")])]
  /\ InvalidateScopes(<<"data", "/bots", botId, "/actions", "/d.js">>)
  /\ UNCHANGED <<strictRequire, pending, now, tasks, lastCall>>

\* listActions of a scope whose catalog is not all cached: it reads the Content
\* Store and is suspended until the reads are back
ListStartWith(botId, r) ==
  pending' = [pending EXCEPT ![botId] =
                Defined([r |-> r,
                         missGlobal |-> ~scoped[botId].globalActionsCache.set,
                         missLocal |-> ~scoped[botId].localActionsCache.set,
                         seen |-> scoped[botId].scriptsCache])]

ListStart(botId) ==
  /\ botId \in DOMAIN scoped
  /\ ~pending[botId].set
  /\ ~scoped[botId].globalActionsCache.set \/ ~scoped[botId].localActionsCache.set
  /\ ListStartWith(botId, listActions(Ctx(scoped[botId], IncomingEvent(botId)), botId))
  /\ UNCHANGED <<ghost, strictRequire, scoped, debounce, now, tasks, lastCall, hist>>

\* the script-cache entries a suspended listing sets when it goes on
ScriptsSetBy(p) ==
  LET acts == SelectSeq(p.r.val, LAMBDA a : /\ ~MapHas(p.seen, a.name)
                                            /\ IF a.location = "global" THEN p.missGlobal
                                               ELSE p.missLocal)
  IN {<<ScriptKey(acts[i]), i>> : i \in 1..Len(acts)}

\* the reads are back: the listing caches what it read and returns it
ListFinish(botId) ==
  /\ botId \in DOMAIN scoped
  /\ pending[botId].set
  /\ pending' = [pending EXCEPT ![botId] = Undefined]
  /\ scoped' = [scoped EXCEPT ![botId] =
        IF ~pending[botId].val.r.ok THEN @
        ELSE [@ EXCEPT
          !.globalActionsCache = IF pending[botId].val.missGlobal
                                 THEN pending[botId].val.r.c.sc.globalActionsCache ELSE @,
          !.localActionsCache = IF pending[botId].val.missLocal
                                THEN pending[botId].val.r.c.sc.localActionsCache ELSE @,
          !.scriptsCache =
             [k \in DOMAIN @ \cup {ks[1] : ks \in ScriptsSetBy(pending[botId].val)} |->
                IF k \in {ks[1] : ks \in ScriptsSetBy(pending[botId].val)}
                THEN pending[botId].val.r.c.sc.scriptsCache[k] ELSE @[k]]]]
  /\ lastCall' = [op |-> "listActionsResumed", botId |-> botId,
                  ok |-> pending[botId].val.r.ok, val |-> pending[botId].val.r.val,
                  thrown |-> pending[botId].val.r.err, ops |-> pending[botId].val.r.c.ops]
  /\ UNCHANGED <<ghost, strictRequire, debounce, now, tasks, hist>>

\* the timer of a closure made with { trailing: true }: its expiry clears the caches
TimerExpiredTrailing(botId) ==
  /\ botId \in DOMAIN scoped
  /\ debounce[botId].timerId.set
  /\ debounce[botId].timerId.val <= now
  /\ debounce' = [debounce EXCEPT ![botId] = TimerExpiredAt(@, now)]
  /\ scoped' = [scoped EXCEPT ![botId] =
                  IF TimerExpiredAt(debounce[botId], now).timerId.set THEN @
                  ELSE ClearCache(@)]
  /\ UNCHANGED <<ghost, strictRequire, pending, now, tasks, lastCall, hist>>

\* the timer of a scope's debounce closure fires
TimerExpired(botId) ==
  /\ botId \in DOMAIN scoped
  /\ debounce[botId].timerId.set
  /\ debounce[botId].timerId.val <= now
  /\ debounce' = [debounce EXCEPT ![botId] = TimerExpiredAt(@, now)]
  /\ UNCHANGED <<ghost, strictRequire, pending, scoped, now, tasks, lastCall, hist>>

\* time passes; a timer that is due fires before the clock moves on
Tick ==
  /\ now < MaxTime
  /\ \A b \in DOMAIN scoped : debounce[b].timerId.set => debounce[b].timerId.val > now
  /\ now' = now + 1
  /\ UNCHANGED <<ghost, strictRequire, pending, scoped, debounce, tasks, lastCall, hist>>

-----------------------------------------------------------------------------
(* Specifications *)

\* one bot's in-process use: listing, running, invalidation
Next ==
  \/ ForBot("b1")
  \/ ListActions("b1")
  \/ \E n \in ActionNames : RunLocal("b1", n)
  \/ \E k \in InvalidationKeys :
       /\ \A b \in DOMAIN scoped : Len(hist[b].events) < MaxClears
       /\ Invalidate(k)

Spec == Init /\ [][Next]_vars

\* a store with a trusted and an untrusted action, or one whose global listing
\* fails; remote and in-process runs
Entry(scopeId, file, alt) ==
  [file |-> file, text |-> Text(scopeId, file, alt.requires, alt.body)]

RemoteGlobalStores ==
  { << Entry("global", <<"util", ".js">>, PlainOk),
       Entry("global", <<"nlu", "/", "a", ".js">>, PlainOk) >>,
    << Entry("global", <<"nlu", "/", "a", ".js">>, PlainOk),
       Entry("global", <<"x", ".http", ".js">>, PlainOk) >> }

RemoteLocalStore ==
  << Entry("b1", <<"nlu", "/", "a", ".js">>, PlainOk),
     Entry("b1", <<"c", ".js">>, PlainThrow) >>

InitRemote ==
  /\ \E g \in RemoteGlobalStores :
       ghost = [s \in Scopes |-> IF s = "global" THEN g
                                 ELSE IF s = "b1" THEN RemoteLocalStore ELSE <<>>]
  /\ strictRequire \in BOOLEAN
  /\ InitService

NextRemote ==
  \/ ForBot("b1")
  \/ \E n \in ActionNames : RunLocal("b1", n)
  \/ \E n \in ActionNames : RunRemote("b1", n)

SpecRemote == InitRemote /\ [][NextRemote]_vars

\* one scope, its catalog and its debounced invalidation over time
InitDebounce ==
  /\ ghost = [s \in Scopes |-> IF s = "global" THEN CHOOSE g \in RemoteGlobalStores : Len(g[1].file) = 2
                               ELSE IF s = "b1" THEN RemoteLocalStore ELSE <<>>]
  /\ strictRequire = FALSE
  /\ InitService

NextDebounce ==
  \/ ForBot("b1")
  \/ ListActions("b1")
  \/ \E k \in InvalidationKeys : Invalidate(k)
  \/ TimerExpired("b1")
  \/ Tick

SpecDebounce == InitDebounce /\ [][NextDebounce]_vars

\* stores with a script that never returns, with require cycles, and with an
\* action named as the script-cache key of another; every way of running
ScriptStores ==
  { [global |-> << Entry("global", <<"nlu", "/", "a", ".js">>, PlainLoop) >>,
     local |-> << Entry("b1", <<"c", ".js">>, PlainLoop) >>],
    [global |-> << Entry("global", <<"util", ".js">>, PlainOk),
                   Entry("global", <<"nlu", "/", "a", ".js">>, PlainOk) >>,
     local |-> << Entry("b1", <<"c", ".js">>, RequiresUtil) >>],
    [global |-> << Entry("global", <<"util", ".js">>, PlainOk) >>,
     local |-> << Entry("b1", <<"c", ".js">>, RequiresC) >>],
    [global |-> << Entry("global", <<"util", ".js">>, RequiresC) >>,
     local |-> << Entry("b1", <<"c", ".js">>, RequiresUtil) >>],
    [global |-> << Entry("global", <<"nlu", "/", "a", "_", "true", "_", "local", ".js">>,
                         PlainOk) >>,
     local |-> << Entry("b1", <<"nlu", "/", "a", ".js">>, PlainOk) >>],
    [global |-> << Entry("global", <<"util", ".js">>, RequiresMissing) >>,
     local |-> << Entry("b1", <<"c", ".js">>, RequiresUtil) >>] }

ScriptNames == ActionNames \cup { <<"nlu", "/", "a", "_", "true", "_", "local">> }

InitScripts ==
  /\ \E st \in ScriptStores :
       ghost = [s \in Scopes |-> IF s = "global" THEN st.global
                                 ELSE IF s = "b1" THEN st.local ELSE <<>>]
  /\ strictRequire \in BOOLEAN
  /\ InitService

NextScripts ==
  \/ ForBot("b1")
  \/ ListActions("b1")
  \/ \E n \in ScriptNames : RunLocal("b1", n)
  \/ \E k \in InvalidationKeys :
       /\ \A b \in DOMAIN scoped : Len(hist[b].events) < MaxClears
       /\ Invalidate(k)

SpecScripts == InitScripts /\ [][NextScripts]_vars

\* one scope in strict-require mode that fills all of its caches (listings,
\* in-process and remote runs) and has them invalidated
InitClear ==
  /\ ghost = [s \in Scopes |->
               IF s = "global" THEN << Entry("global", <<"util", ".js">>, PlainOk) >>
               ELSE IF s = "b1" THEN << Entry("b1", <<"c", ".js">>, RequiresUtil) >>
               ELSE <<>>]
  /\ strictRequire = TRUE
  /\ InitService

NextClear ==
  \/ ForBot("b1")
  \/ ListActions("b1")
  \/ RunLocal("b1", <<"c">>)
  \/ RunRemote("b1", <<"c">>)
  \/ \E k \in InvalidationKeys :
       /\ \A b \in DOMAIN scoped : Len(hist[b].events) < MaxClears
       /\ Invalidate(k)

SpecClear == InitClear /\ [][NextClear]_vars

\* the scopes of two bots, made at different times, their listings and the
\* invalidation events that reach both
NextBots ==
  \/ \E b \in Bots : ForBot(b)
  \/ \E b \in Bots : ListActions(b)
  \/ \E k \in InvalidationKeys :
       /\ \A b \in DOMAIN scoped : Len(hist[b].events) < MaxBotEvents
       /\ Invalidate(k)
  \/ \E b \in Bots : TimerExpired(b)
  \/ now < MaxBotTime /\ Tick

SpecBots == InitDebounce /\ [][NextBots]_vars

\* one scope whose folder is written to over time: writes, their debounced
\* invalidation, and listings
NextWrites ==
  \/ ForBot("b1")
  \/ ListActions("b1")
  \/ WriteFile("b1")
  \/ TimerExpired("b1")
  \/ Tick

SpecWrites == InitDebounce /\ [][NextWrites]_vars

\* one scope, a write with its clear, and listings suspended on their reads
NextRace ==
  \/ ForBot("b1")
  \/ ListActions("b1")
  \/ ListStart("b1")
  \/ ListFinish("b1")
  \/ /\ \A b \in DOMAIN scoped : Len(hist[b].events) < MaxClears
     /\ WriteFile("b1")

SpecRace == InitRemote /\ [][NextRace]_vars

-----------------------------------------------------------------------------
(* Properties *)

IsRun == lastCall.op = "runAction"
IsLocalRun == IsRun /\ ~lastCall.props.actionServer.set
IsRemoteRun == IsRun /\ lastCall.props.actionServer.set
IsList == lastCall.op = "listActions"

\* the action files of a store scope that are listed: '*.js', enabled
ListedFiles(scopeId) ==
  LET Listed(f) == MatchesJsGlob(f) /\ enabled(f)
  IN SelectSeq(StoreFiles(scopeId), Listed)

OutsideFile == <<"..", "/", "etc", "/", "hosts", ".js">>

\* C1: in strict-require mode, a runAction whose checkRequires returned false is
\* rejected, runs no script in either in-process strategy, and reads no file
\* outside the lookup roots
C1_FailedRequireCheckAbortsRun ==
  (IsLocalRun /\ strictRequire /\ lastCall.checked = <<FALSE>>)
    => /\ lastCall.settled = "rejected"
       /\ lastCall.executed = <<>>
       /\ \A i \in 1..Len(lastCall.ops) :
            lastCall.ops[i][1] = "read" => lastCall.ops[i][3] # OutsideFile

\* C2: isTrusted(actionName) is true exactly when the global scope holds an
\* action of that name whose first name segment is a built-in module; a name
\* held only by the bot's local scope is never trusted
C2_TrustedIffGlobalBuiltin ==
  (IsLocalRun /\ lastCall.trusted.set)
    => /\ lastCall.trusted.val
            <=> /\ IsBuiltinNamespace(lastCall.props.actionName)
                /\ \E i \in 1..Len(ListedFiles("global")) :
                     StripExtension(ListedFiles("global")[i]) = lastCall.props.actionName
       /\ lastCall.entered = <<IF lastCall.trusted.val THEN "TrustedRun" ELSE "SandboxedRun">>

\* a built-in name held by the bot's local scope only, run in the sandbox
C2_Witness ==
  /\ IsLocalRun /\ lastCall.trusted = Defined(FALSE)
  /\ IsBuiltinNamespace(lastCall.props.actionName)
  /\ \E i \in 1..Len(ListedFiles(lastCall.botId)) :
       StripExtension(ListedFiles(lastCall.botId)[i]) = lastCall.props.actionName
  /\ \E i \in 1..Len(lastCall.executed) : lastCall.executed[i][1] = "SandboxedRun"

\* C3 as claimed: every runAction with an action server creates exactly one
\* audit task, 'completed' when an HTTP response came, else 'failed' with the
\* transport error code as its reason
C3_ExactlyOneTaskPerAttempt ==
  IsRemoteRun
    => /\ Len(lastCall.created) = 1
       /\ lastCall.outcome.kind = "response" => lastCall.created[1].status = "completed"
       /\ lastCall.outcome.kind # "response"
            => /\ lastCall.created[1].status = "failed"
               /\ lastCall.created[1].failureReason = <<"axios:", lastCall.outcome.code>>

\* C3 as amended: a runAction with an action server creates one 'completed' task
\* when any HTTP response came, one 'failed' task with reason axios:<code> when
\* the request failed with an axios error, and no task when it failed with
\* another error; never two; the task is the last of the repository
C3_OneTaskPerAnsweredOrAxiosFailedAttempt ==
  IsRemoteRun
    => /\ Len(lastCall.created) <= 1
       /\ lastCall.outcome.kind = "response"
            => /\ Len(lastCall.created) = 1
               /\ lastCall.created[1].status = "completed"
               /\ lastCall.created[1].actionName = lastCall.props.actionName
       /\ lastCall.outcome.kind = "axiosError"
            => /\ Len(lastCall.created) = 1
               /\ lastCall.created[1].status = "failed"
               /\ lastCall.created[1].failureReason = <<"axios:", lastCall.outcome.code>>
               /\ lastCall.settled = "rejected"
       /\ lastCall.outcome.kind = "error" => lastCall.created = <<>>
       /\ Len(tasks) >= Len(lastCall.created)
       /\ SubSeq(tasks, Len(tasks) - Len(lastCall.created) + 1, Len(tasks)) = lastCall.created

\* an HTTP 500 response, audited as one completed task
C3_Witness ==
  /\ IsRemoteRun
  /\ lastCall.outcome.kind = "response" /\ lastCall.outcome.status = 500
  /\ Len(lastCall.created) = 1 /\ lastCall.created[1].status = "completed"
  /\ Len(tasks) = 2

\* a stage of the last runAction failed: something was thrown, or require
\* validation returned false
StageFailed ==
  \/ lastCall.thrown.type # "none"
  \/ \E i \in 1..Len(lastCall.checked) : ~lastCall.checked[i]

\* C4: every failure of a runAction call, in whichever stage, reaches the caller
\* as one ActionExecutionError with the original message, the action name and
\* the stack
C4_EveryFailureIsOneActionExecutionError ==
  (IsRun /\ StageFailed)
    => /\ lastCall.settled = "rejected"
       /\ lastCall.error.type = "ActionExecutionError"
       /\ lastCall.error.actionName = lastCall.props.actionName
       /\ lastCall.thrown.type # "none"
            => /\ lastCall.error.message = lastCall.thrown.message
               /\ lastCall.error.stack = lastCall.thrown.stack

\* C5 as claimed: every runAction enters exactly one strategy: RemoteDelegate
\* with an action server, else TrustedRun for a trusted action, else SandboxedRun
C5_ExactlyOneStrategy ==
  IsRun
    => /\ Len(lastCall.entered) = 1
       /\ lastCall.props.actionServer.set
            => lastCall.entered[1] = "RemoteDelegate" /\ lastCall.executed = <<>>
       /\ (~lastCall.props.actionServer.set /\ lastCall.trusted = Defined(TRUE))
            => lastCall.entered[1] = "TrustedRun"
       /\ (~lastCall.props.actionServer.set /\ lastCall.trusted # Defined(TRUE))
            => lastCall.entered[1] = "SandboxedRun"

\* C5 as amended: a runAction enters RemoteDelegate, and runs no script
\* in-process, when an action server is given, whatever the action's trust;
\* else TrustedRun when the action is classified trusted; else SandboxedRun when
\* it is classified untrusted; and no strategy at all when the classification
\* itself fails (the global catalog cannot be listed), the call being rejected.
\* No call enters two strategies
C5_AtMostOneStrategyInOrder ==
  IsRun
    => /\ Len(lastCall.entered) <= 1
       /\ lastCall.props.actionServer.set
            => lastCall.entered = <<"RemoteDelegate">> /\ lastCall.executed = <<>>
       /\ (~lastCall.props.actionServer.set /\ lastCall.trusted.set)
            => lastCall.entered =
                 <<IF lastCall.trusted.val THEN "TrustedRun" ELSE "SandboxedRun">>
       /\ (~lastCall.props.actionServer.set /\ ~lastCall.trusted.set)
            => lastCall.entered = <<>> /\ lastCall.settled = "rejected"
       /\ \A i \in 1..Len(lastCall.executed) : lastCall.executed[i][1] = lastCall.entered[1]

\* a trusted action run with an action server: delegated, not run in-process
C5_Witness ==
  /\ IsRemoteRun
  /\ lastCall.entered = <<"RemoteDelegate">>
  /\ IsBuiltinNamespace(lastCall.props.actionName)
  /\ \E i \in 1..Len(ListedFiles("global")) :
       StripExtension(ListedFiles("global")[i]) = lastCall.props.actionName
  /\ scoped[lastCall.botId].globalActionsCache.set

\* C6: after a runAction with an action server that resolved, the caller holds
\* the event the server returned, its state.temp.responseStatusCode being the
\* HTTP status
C6_CallerGetsRemoteEvent ==
  (IsRemoteRun /\ lastCall.settled = "resolved")
    => lastCall.callerEvent =
         [lastCall.outcome.data.val EXCEPT
            !.state.temp.responseStatusCode = lastCall.outcome.status]

\* C7: a runAction with an action server resolves for every HTTP response,
\* whatever its status, and is rejected only when no HTTP response came
C7_NoHttpStatusRaises ==
  IsRemoteRun => (lastCall.outcome.kind = "response" <=> lastCall.settled = "resolved")

BurstSpan == DEBOUNCE_DELAY \div 4                  \* 500 ms
AfterBurst == DEBOUNCE_DELAY + DEBOUNCE_DELAY \div 2  \* 3 s

\* C8: in a scope, of the matching events of a burst that all come within 500 ms
\* of its first, exactly the first clears the caches, and a further matching
\* event 3 s after the first clears them once more
C8_BurstClearsOnce ==
  \A b \in DOMAIN hist :
    LET ev == hist[b].events
    IN \A i, j \in 1..Len(ev) :
         ( /\ i < j
           /\ i = 1 \/ ev[i].at - ev[i - 1].at > DEBOUNCE_DELAY
           /\ \A k \in (i + 1)..(j - 1) : ev[k].at - ev[i].at <= BurstSpan
           /\ ev[j].at - ev[i].at = AfterBurst )
         => /\ ev[i].cleared
            /\ \A k \in (i + 1)..(j - 1) : ~ev[k].cleared
            /\ ev[j].cleared

\* a burst of three events within 500 ms, then one 3 s after the first
C8_Witness ==
  \E b \in DOMAIN hist :
    LET ev == hist[b].events
    IN /\ Len(ev) = 4
       /\ ev[3].at - ev[1].at <= BurstSpan /\ ev[3].at > ev[1].at
       /\ ev[4].at - ev[1].at = AfterBurst
       /\ ev[1].cleared /\ ~ev[2].cleared /\ ~ev[3].cleared /\ ev[4].cleared

\* C9: a listActions after a listActions of the same scope, no clear between
\* them, returns the same catalog and makes no Content Store operation
C9_SecondListingFromCache ==
  (IsList /\ lastCall.before.set)
    => /\ lastCall.ok
       /\ lastCall.val = lastCall.before.val
       /\ lastCall.ops = <<>>

\* a second listing of a catalog of global and local actions
C9_Witness ==
  /\ IsList /\ lastCall.before.set /\ lastCall.ok
  /\ \E i, j \in 1..Len(lastCall.val) :
       lastCall.val[i].location = "global" /\ lastCall.val[j].location = "local"

\* the <<location, name>> of the actions of a store scope, in enumeration order
NamesOf(scopeId, location) ==
  [i \in 1..Len(ListedFiles(scopeId)) |-> <<location, StripExtension(ListedFiles(scopeId)[i])>>]

\* C10: listActions returns the global actions, then the local ones, each
\* group in the enumeration order of its store scope, names of both scopes twice
C10_GlobalThenLocalInOrder ==
  (IsList /\ lastCall.ok)
    => [i \in 1..Len(lastCall.val) |-> <<lastCall.val[i].location, lastCall.val[i].name>>]
         = NamesOf("global", "global") \o NamesOf(lastCall.botId, "local")

\* two global and two local actions, one name in both scopes
C10_Witness ==
  /\ IsList /\ lastCall.ok /\ Len(lastCall.val) = 4
  /\ \E i, j \in 1..Len(lastCall.val) :
       /\ i < j
       /\ lastCall.val[i].name = lastCall.val[j].name
       /\ lastCall.val[i].location = "global" /\ lastCall.val[j].location = "local"

\* the names of the merged catalog of a bot, as the store holds them
CatalogNames(botId) ==
  {StripExtension(ListedFiles("global")[i]) : i \in 1..Len(ListedFiles("global"))}
    \cup {StripExtension(ListedFiles(botId)[i]) : i \in 1..Len(ListedFiles(botId))}

\* the Content Store operations of the last call that list the folder of a scope
ListingsOf(scopeId) ==
  {i \in 1..Len(lastCall.ops) : lastCall.ops[i] = <<"list", scopeId>>}

\* C11: a runAction without action server for a name absent from the merged
\* catalog is rejected, 'Action not found' when the catalog could be listed; it
\* runs no script and loads no required file, enters one strategy at most, and
\* looks the catalog up once (each folder is listed at most once)
C11_AbsentActionFailsWithoutRun ==
  (IsLocalRun /\ lastCall.props.actionName \notin CatalogNames(lastCall.botId))
    => /\ lastCall.settled = "rejected"
       /\ lastCall.error.type = "ActionExecutionError"
       /\ lastCall.trusted.set
            => lastCall.thrown.message = <<"Action not found", lastCall.props.actionName>>
       /\ lastCall.executed = <<>>
       /\ lastCall.loaded = <<>>
       /\ Len(lastCall.entered) <= 1
       /\ Cardinality(ListingsOf("global")) <= 1
       /\ Cardinality(ListingsOf(lastCall.botId)) <= 1

\* an absent name run against a catalog that holds other actions
C11_Witness ==
  /\ IsLocalRun
  /\ lastCall.props.actionName \notin CatalogNames(lastCall.botId)
  /\ CatalogNames(lastCall.botId) # {}
  /\ lastCall.thrown.message = <<"Action not found", lastCall.props.actionName>>
  /\ lastCall.entered = <<"SandboxedRun">>

\* the sandboxed runs of the last call of scripts that never return
LoopingSandboxedRuns ==
  {i \in 1..Len(lastCall.executed) :
     /\ lastCall.executed[i][1] = "SandboxedRun"
     /\ \E k \in 1..Len(ghost[lastCall.executed[i][2][1]]) :
          /\ ghost[lastCall.executed[i][2][1]][k].text.tag = lastCall.executed[i][2]
          /\ ghost[lastCall.executed[i][2][1]][k].text.body = "loop"}

EntriesNamed(botId, name) ==
  LET Named(e) == MatchesJsGlob(e.file) /\ enabled(e.file) /\ StripExtension(e.file) = name
  IN SelectSeq(ghost["global"], Named) \o SelectSeq(ghost[botId], Named)

\* the names an action's text requires that do not resolve in the lookup roots
UnresolvedRequires(botId, name) ==
  IF EntriesNamed(botId, name) = <<>> THEN {}
  ELSE {EntriesNamed(botId, name)[1].text.requires[i] :
          i \in 1..Len(EntriesNamed(botId, name)[1].text.requires)} \ ResolvableModules

\* an action that requires itself, or one of two that require each other
InRequireCycle(botId, name) ==
  \/ name \in UnresolvedRequires(botId, name)
  \/ \E other \in UnresolvedRequires(botId, name) :
       name \in UnresolvedRequires(botId, other)

\* C13: in strict-require mode, checkRequires for an action of a require cycle
\* finishes and finds the action valid, so that the runAction that made it settles
C13_CheckRequiresEndsOnCycles ==
  (IsLocalRun /\ strictRequire /\ lastCall.entered # <<>>
     /\ InRequireCycle(lastCall.botId, lastCall.props.actionName))
    => /\ lastCall.settled # "never"
       /\ lastCall.checked = <<TRUE>>

\* the catalog of the Content Store as it was when the last listing was made
NamesIn(entries, location) ==
  LET Listed(e) == MatchesJsGlob(e.file) /\ enabled(e.file)
      es == SelectSeq(entries, Listed)
  IN [i \in 1..Len(es) |-> <<location, StripExtension(es[i].file)>>]

FreshNames ==
  NamesIn(lastCall.store["global"], "global") \o NamesIn(lastCall.store[lastCall.botId], "local")

ListedNames ==
  [i \in 1..Len(lastCall.val) |-> <<lastCall.val[i].location, lastCall.val[i].name>>]

\* C14: once a scope's caches have been cleared by the first event of a burst,
\* every listActions of the scope returns the catalog the Content Store holds at
\* that time, also after further writes whose events the debounce suppressed
C14_ListingFreshAfterLeadingClear ==
  (IsList /\ lastCall.ok
     /\ \E i \in 1..Len(lastCall.events) : lastCall.events[i].cleared)
    => ListedNames = FreshNames

\* C15: a listActions that starts after a clear of its scope (no write has come
\* since) returns the catalog as the Content Store holds it since that clear,
\* whatever listings were suspended on their reads when the clear ran
C15_ListingAfterClearNotPreClear ==
  (IsList /\ lastCall.ok
     /\ lastCall.events # <<>>
     /\ lastCall.events[Len(lastCall.events)].cleared)
    => ListedNames = FreshNames

\* C16: within one call (no clear can come between), a script that
\* getActionScript has loaded is not read from the Content Store again: a later
\* getActionScript for the same action takes the memoized text
C16_ScriptReadOncePerCall ==
  IsLocalRun
    => \A i, j \in 1..Len(lastCall.ops) :
         (i < j /\ lastCall.ops[i][1] = "read") => lastCall.ops[i] # lastCall.ops[j]

\* the matching invalidation events of a scope are flagged as the leading edge
\* has it: the first, and one after more than 2 s of quiet, clears; one less
\* than 2 s after the event before it does not
LeadingEdgeFlags ==
  \A b \in DOMAIN hist :
    \A i \in 1..Len(hist[b].events) :
      /\ (i = 1 \/ hist[b].events[i].at - hist[b].events[i - 1].at > DEBOUNCE_DELAY)
           => hist[b].events[i].cleared
      /\ (i > 1 /\ hist[b].events[i].at - hist[b].events[i - 1].at < DEBOUNCE_DELAY)
           => ~hist[b].events[i].cleared

\* a step empties a cache of a scope only if a matching event arrives in it that
\* is flagged as clearing; an event flagged otherwise leaves the scope as it is
ClearOnlyOnEvent ==
  \A b \in DOMAIN scoped :
    /\ hist'[b].events = hist[b].events
         => PopulatedCaches(scoped[b]) \subseteq PopulatedCaches(scoped'[b])
    /\ (hist'[b].events # hist[b].events
          /\ ~hist'[b].events[Len(hist'[b].events)].cleared)
         => scoped'[b] = scoped[b]
    /\ (hist'[b].events # hist[b].events
          /\ hist'[b].events[Len(hist'[b].events)].cleared)
         => PopulatedCaches(scoped'[b]) = {}

\* C17: the caches of a scope are cleared only at the arrival of a matching
\* invalidation event, on the leading edge: the first event after a quiet period
\* clears at once, events within the 2 s after the event before them clear
\* nothing, and the expiry of the window clears nothing
C17_ClearOnlyOnLeadingEdge == []LeadingEdgeFlags /\ [][ClearOnlyOnEvent]_vars

\* a catalog cached inside the window is still cached after the window expired
\* behind a suppressed event
C17_Witness ==
  \E b \in DOMAIN scoped :
    /\ Len(hist[b].events) >= 2
    /\ ~hist[b].events[Len(hist[b].events)].cleared
    /\ ~debounce[b].timerId.set
    /\ IsList /\ lastCall.botId = b /\ lastCall.events = hist[b].events
    /\ lastCall.at < hist[b].events[Len(hist[b].events)].at + DEBOUNCE_DELAY
    /\ scoped[b].localActionsCache.set /\ scoped[b].globalActionsCache.set

\* the last call was a local run that went through loadLocalAction in strict
\* mode, so it called checkActionRequires for the action's name
IsStrictLoad == IsLocalRun /\ strictRequire /\ lastCall.trusted = Defined(FALSE)

\* a strict load of a name already in the validated set gets true from the check,
\* which looks nothing up (the one getActionDetails call is loadLocalAction's own)
\* and executes no required file; a strict load of a name not in the set has the
\* check look the action up first, and a check that returns true leaves the name
\* in the set
MemoizedCheck ==
  IsStrictLoad
    => /\ lastCall.props.actionName \in lastCall.valid.before
            => /\ lastCall.checked = <<TRUE>>
               /\ lastCall.loaded = <<>>
               /\ lastCall.details = <<lastCall.props.actionName>>
       /\ lastCall.props.actionName \notin lastCall.valid.before
            => /\ lastCall.details # <<>>
               /\ lastCall.details[1] = lastCall.props.actionName
               /\ lastCall.checked = <<TRUE>>
                    => /\ Len(lastCall.details) >= 2
                       /\ lastCall.details[Len(lastCall.details)] = lastCall.props.actionName
       /\ lastCall.checked = <<TRUE>>
            => lastCall.props.actionName \in lastCall.valid.after

\* a name leaves the validated set of a scope only in a step that clears the
\* scope's caches, which leaves the set empty
ValidUntilClear ==
  \A b \in DOMAIN scoped :
    \/ scoped[b].validScripts \subseteq scoped'[b].validScripts
    \/ /\ scoped'[b].validScripts = {}
       /\ hist'[b].events # hist[b].events
       /\ hist'[b].events[Len(hist'[b].events)].cleared

\* C18: checkActionRequires is memoized per scope by action name: after it has
\* returned true for a name, a later call for the name returns true without
\* looking up or executing any script, until a cache clear empties the validated
\* set; the first call after the clear validates again
C18_RequireCheckMemoized == []MemoizedCheck /\ [][ValidUntilClear]_vars

\* a strict load of an action with a require to resolve whose name was validated
\* by an earlier call
C18_Witness ==
  /\ IsStrictLoad
  /\ lastCall.props.actionName \in lastCall.valid.before
  /\ lastCall.checked = <<TRUE>>
  /\ lastCall.executed # <<>>
  /\ UnresolvedRequires(lastCall.botId, lastCall.props.actionName) # {}

\* a step in which _clearCache runs for a scope leaves the scope as a new one:
\* both catalog caches unset, and the script cache, the validated set and the
\* workspace memo empty
ClearEmptiesAll ==
  \A b \in DOMAIN scoped :
    (hist'[b].events # hist[b].events /\ hist'[b].events[Len(hist'[b].events)].cleared)
      => /\ ~scoped'[b].globalActionsCache.set
         /\ ~scoped'[b].localActionsCache.set
         /\ scoped'[b].scriptsCache = EmptyMap
         /\ scoped'[b].validScripts = {}
         /\ scoped'[b].botsWorkspaceIdsCache = EmptyMap

\* C19: a cache clear empties all of a scope's caches in one step: the global and
\* the local catalog cache, the script-text cache, the validated-requires set and
\* the workspace memo; no clear leaves one of them populated
C19_ClearEmptiesAllCaches == [][ClearEmptiesAll]_vars

\* a clear that found all five caches populated has just emptied them
C19_Witness ==
  \E b \in DOMAIN scoped :
    /\ hist[b].events # <<>>
    /\ hist[b].events[Len(hist[b].events)].cleared
    /\ hist[b].events[Len(hist[b].events)].held
         = {"global", "local", "scripts", "valid", "workspace"}
    /\ scoped[b] = NewScope

\* C20: the script text handed to an execution strategy is the text read from
\* the file of the action that is run: it is the text of an enabled action file
\* of that name, and the trusted in-process path never runs text read from a
\* bot-local file
C20_ExecutedTextIsOwnFile ==
  IsLocalRun
    => \A i \in 1..Len(lastCall.executed) :
         /\ \E j \in 1..Len(EntriesNamed(lastCall.botId, lastCall.props.actionName)) :
              EntriesNamed(lastCall.botId, lastCall.props.actionName)[j].text.tag
                = lastCall.executed[i][2]
         /\ lastCall.executed[i][1] = "TrustedRun" => lastCall.executed[i][2][1] = "global"

\* C21: checkRequires adds an action to the validated set only if the check of
\* every required file it recursed into succeeded: when the nested check of a
\* required file returns false, the parent is not marked validated and the
\* parent's check returns false too
C21_FailedNestedCheckFailsParent ==
  IsStrictLoad
    => \A i \in 1..Len(lastCall.nested) :
         lastCall.nested[i][3] = FALSE
           => /\ lastCall.nested[i][1] \notin lastCall.valid.after
              /\ lastCall.nested[i][1] = lastCall.props.actionName
                   => lastCall.checked # <<TRUE>>

\* C22 as stated: a matching event clears the caches of a scope if and only if no
\* matching event reached the scope during the 2 s before it
C22_ClearIffQuietForTwoSeconds ==
  \A b \in DOMAIN hist :
    \A i \in 1..Len(hist[b].events) :
      hist[b].events[i].cleared
        <=> (i = 1 \/ hist[b].events[i].at - hist[b].events[i - 1].at >= DEBOUNCE_DELAY)

\* the events i+1..j of a scope are an unbroken stream behind event i: each comes
\* less than 2 s after the event before it
UnbrokenStream(ev, i, j) ==
  \A k \in (i + 1)..j : ev[k].at - ev[k - 1].at < DEBOUNCE_DELAY

\* C22 (amended): a matching event that comes more than 2 s after the matching
\* event before it (or is the scope's first) clears, and one that comes less than
\* 2 s after it does not; every event, suppressed or not, restarts the window, so
\* no event of an unbroken stream clears but possibly its first, however long the
\* stream lasts; whether an event exactly 2 s after the one before it clears is
\* left open (it does if the closure's timer has fired before it)
C22_ClearIffQuietOffBoundary ==
  \A b \in DOMAIN hist :
    /\ \A i \in 1..Len(hist[b].events) :
         (i = 1 \/ hist[b].events[i].at - hist[b].events[i - 1].at # DEBOUNCE_DELAY)
           => (hist[b].events[i].cleared
                 <=> (i = 1 \/ hist[b].events[i].at - hist[b].events[i - 1].at
                                 > DEBOUNCE_DELAY))
    /\ \A i, j \in 1..Len(hist[b].events) :
         (i < j /\ UnbrokenStream(hist[b].events, i, j))
           => \A k \in (i + 1)..j : ~hist[b].events[k].cleared
    /\ hist[b].events # <<>>
         => debounce[b].lastCallTime
              = Defined(hist[b].events[Len(hist[b].events)].at)

\* an unbroken stream that lasts longer than 2 s: only its first event cleared,
\* and the closure's timer has fired and been re-armed in between
C22_Witness ==
  \E b \in DOMAIN hist :
    /\ Len(hist[b].events) >= 3
    /\ UnbrokenStream(hist[b].events, 1, Len(hist[b].events))
    /\ hist[b].events[Len(hist[b].events)].at - hist[b].events[1].at > DEBOUNCE_DELAY
    /\ hist[b].events[1].cleared
    /\ \A k \in 2..Len(hist[b].events) : ~hist[b].events[k].cleared
    /\ debounce[b].timerId.set
    /\ debounce[b].timerId.val > hist[b].events[1].at + DEBOUNCE_DELAY

\* the key has '/actions' in it, in some letter case
HasActionsSegment(key) ==
  \E i \in 1..Len(key) : key[i] \in {"/actions", "/ACTIONS", "/Actions"}

\* a step in which a matching event reaches some scope brings it to every scope
\* there is, and each scope clears by its own closure: its first event clears all
\* its caches, an event more than 2 s after its last one too, and an event less
\* than 2 s after its last one leaves the scope as it is
EveryScopeGetsTheEvent ==
  (\E a \in DOMAIN scoped : hist'[a].events # hist[a].events)
    => \A b \in DOMAIN scoped :
         /\ Len(hist'[b].events) = Len(hist[b].events) + 1
         /\ hist'[b].events[Len(hist'[b].events)].at = now
         /\ hist'[b].events[Len(hist'[b].events)].cleared
              => PopulatedCaches(scoped'[b]) = {}
         /\ ~hist'[b].events[Len(hist'[b].events)].cleared
              => scoped'[b] = scoped[b]
         /\ hist[b].events = <<>>
              => hist'[b].events[Len(hist'[b].events)].cleared
         /\ (hist[b].events # <<>>
               /\ now - hist[b].events[Len(hist[b].events)].at > DEBOUNCE_DELAY)
              => hist'[b].events[Len(hist'[b].events)].cleared
         /\ (hist[b].events # <<>>
               /\ now - hist[b].events[Len(hist[b].events)].at < DEBOUNCE_DELAY)
              => ~hist'[b].events[Len(hist'[b].events)].cleared

\* the event of a key with '/actions' reaches every scope, whichever bot or global
\* path the key names; the event of another key changes no scope
KeyDecidesForAllScopes ==
  \A k \in InvalidationKeys :
    Invalidate(k)
      => IF HasActionsSegment(k)
         THEN \A b \in DOMAIN scoped : hist'[b].events # hist[b].events
         ELSE scoped' = scoped /\ debounce' = debounce /\ hist' = hist

\* C23: invalidation is not selective by bot: an event whose key contains
\* '/actions' (in any letter case) clears, subject to each scope's own debounce,
\* the caches of every bot scope that exists then, whichever bot or global path
\* the key names; an event whose key does not contain it changes no scope's caches
C23_InvalidationReachesEveryScope ==
  [][EveryScopeGetsTheEvent /\ KeyDecidesForAllScopes]_vars

\* one event has just reached the scopes of two bots: it cleared the populated
\* caches of the scope made after the last event, and was suppressed in the other
C23_Witness ==
  /\ DOMAIN scoped = {"b1", "b2"}
  /\ Len(hist["b1"].events) = 2 /\ Len(hist["b2"].events) = 1
  /\ hist["b1"].events[2].at = hist["b2"].events[1].at
  /\ hist["b1"].events[2].at = now
  /\ ~hist["b1"].events[2].cleared
  /\ hist["b2"].events[1].cleared
  /\ hist["b2"].events[1].held # {}
  /\ scoped["b2"] = NewScope
  /\ PopulatedCaches(scoped["b1"]) # {}

====
